---- MODULE Spec2Model ----
(***************************************************************************)
(* Model of millipede_bar.py: get_incident_data (signal preparation) and   *)
(* model_1d (wave-splitting model), chained as main() chains them.         *)
(*                                                                         *)
(* Numbers.  A float is modelled as an extended rational <<n, d>> in       *)
(* lowest terms: d > 0 is the number n/d, <<1,0>> and <<-1,0>> are +inf    *)
(* and -inf, <<0,0>> is NaN (the value pandas also uses for "absent").     *)
(* Arithmetic is exact; IEEE rounding error and the sign of zero are       *)
(* outside the model.                                                      *)
(* Times are counted in ticks, Sub ticks to the nanosecond, so that        *)
(* np.around(x, 9) is rounding to a multiple of Sub.                       *)
(***************************************************************************)
EXTENDS Integers, Sequences, FiniteSets, TLC

\* ---- bounds of the model ----
MaxLen == 3      \* records in the CSV file
MaxTick == 3     \* largest time stamp, in ticks
MaxAmp == 2      \* largest compressive raw amplitude
Sub == 2         \* ticks per nanosecond

\* ---- extended rational arithmetic (numpy float64 semantics) ----
NaN == <<0, 0>>
PosInf == <<1, 0>>
NegInf == <<-1, 0>>
Zero == <<0, 1>>
One == <<1, 1>>

Abs(n) == IF n < 0 THEN -n ELSE n

Sgn(n) == IF n < 0 THEN -1 ELSE IF n > 0 THEN 1 ELSE 0

RECURSIVE GCD(_, _)
GCD(a, b) == IF b = 0 THEN a ELSE GCD(b, a % b)

Norm(n, d) ==
    IF d = 0 THEN <<Sgn(n), 0>>
    ELSE LET s == IF d < 0 THEN -1 ELSE 1
             g == GCD(Abs(n), Abs(d))
         IN  <<(s * n) \div g, (s * d) \div g>>

Int2F(n) == <<n, 1>>

IsNaN(x) == x = NaN

IsFin(x) == x[2] > 0

Neg(x) == <<-x[1], x[2]>>

FAbs(x) == <<Abs(x[1]), x[2]>>

\* products are cross-reduced first, to keep the integers small
Mul(x, y) ==
    IF x[2] = 0 \/ y[2] = 0 THEN Norm(Sgn(x[1]) * Sgn(y[1]), 0)
    ELSE LET g1 == GCD(Abs(x[1]), y[2])
             g2 == GCD(Abs(y[1]), x[2])
         IN  Norm((x[1] \div g1) * (y[1] \div g2), (x[2] \div g2) * (y[2] \div g1))

\* x / y on numpy floats: division by zero gives inf or NaN, no exception
Div(x, y) ==
    LET s == IF y[1] < 0 THEN -1 ELSE 1
    IN  IF IsFin(x) /\ IsFin(y) /\ y[1] # 0
        THEN Mul(x, <<s * y[2], Abs(y[1])>>)
        ELSE Norm(Sgn(x[1]) * y[2] * s, x[2] * Abs(y[1]))

Add(x, y) ==
    IF x[2] = 0 /\ y[2] = 0 THEN (IF x = y THEN x ELSE NaN)
    ELSE IF x[2] = 0 THEN x
    ELSE IF y[2] = 0 THEN y
    ELSE LET g == GCD(x[2], y[2])
         IN  Norm(x[1] * (y[2] \div g) + y[1] * (x[2] \div g), (x[2] \div g) * y[2])

\* x < y; any comparison with NaN is false
Less(x, y) ==
    IF IsNaN(x) \/ IsNaN(y) \/ x = y THEN FALSE
    ELSE IF x = NegInf \/ y = PosInf THEN TRUE
    ELSE IF x = PosInf \/ y = NegInf THEN FALSE
    ELSE x[1] * y[2] < y[1] * x[2]

Leq(x, y) == (~IsNaN(x) /\ x = y) \/ Less(x, y)

RECURSIVE Pow2(_)
Pow2(e) == IF e = 0 THEN 1 ELSE 2 * Pow2(e - 1)

\* np.sqrt: NaN for a negative argument.  The parameter values of the model
\* make every non-negative argument a ratio of perfect squares.
ISqrt(n) == CHOOSE r \in 0..n : r * r = n

sqrt(x) ==
    IF IsNaN(x) \/ x[1] < 0 THEN NaN
    ELSE IF x[2] = 0 THEN x
    ELSE <<ISqrt(x[1]), ISqrt(x[2])>>

\* np.exp.  The transcendental base e is replaced by 4, which keeps
\* exp(0) = 1, exp(a + b) = exp(a) * exp(b) and strict monotonicity, and is
\* exact on the half-integer arguments -time/t_ch the model produces.
exp(x) ==
    IF IsNaN(x) THEN NaN
    ELSE IF x = PosInf THEN PosInf
    ELSE IF x = NegInf THEN Zero
    ELSE LET e == (2 * x[1]) \div x[2]
         IN  IF e >= 0 THEN <<Pow2(e), 1>> ELSE <<1, Pow2(-e)>>

\* np.around(x, 9): nearest whole nanosecond, ties to the even one
around9(x) ==
    IF ~IsFin(x) THEN x
    ELSE LET b == x[2] * Sub
             fl == x[1] \div b
             rem == x[1] - fl * b
             r == IF 2 * rem < b THEN fl
                  ELSE IF 2 * rem > b THEN fl + 1
                  ELSE IF fl % 2 = 0 THEN fl ELSE fl + 1
         IN  <<r * Sub, 1>>

\* numpy x // y on floats: floor of the quotient; a zero divisor gives
\* inf or NaN as true division does; an infinite or NaN operand gives NaN
floor_divide(x, y) ==
    IF ~IsFin(x) \/ IsNaN(y) THEN NaN
    ELSE IF y[2] = 0 THEN (IF x[1] * y[1] >= 0 THEN Zero ELSE <<-1, 1>>)
    ELSE IF y[1] = 0 THEN Div(x, y)
    ELSE LET q == Div(x, y) IN <<q[1] \div q[2], 1>>

\* ---- inputs ----
Suffixes == {".CSV", ".txt"}

\* str.lower() on the suffixes of the model
lower(s) == IF s = ".CSV" THEN ".csv" ELSE s

\* a parsed CSV cell of the Incident column: a compressive (negative) value,
\* zero, a tensile excursion, or NaN when the cell is missing
AmpValues == {Int2F(a) : a \in -MaxAmp..1} \cup {NaN}

StrictlyIncreasing(f, n) == \A i \in 1..n : \A j \in 1..n : i < j => f[i] < f[j]

\* the parsed file contents: time-sorted records without duplicate times
RowSeqs ==
    UNION {{[i \in 1..n |-> [Time |-> Int2F(t[i]), Incident |-> a[i]]] :
               t \in {f \in [1..n -> 0..MaxTick] : StrictlyIncreasing(f, n)},
               a \in [1..n -> AmpValues]} : n \in 0..MaxLen}

Files == [suffix : Suffixes, rows : RowSeqs]

ElasticModulusValues == {Int2F(-1), Int2F(4)}
DensityValues == {Int2F(-1), Int2F(0), Int2F(1)}
JunctionLengthValues == {Int2F(0), Int2F(2)}
GageDistanceValues == {Int2F(0), Int2F(2), Int2F(5)}

MaterialAllowed ==
    [elastic_modulus |-> ElasticModulusValues, density |-> DensityValues]

GeometricAllowed ==
    [junction_length |-> JunctionLengthValues, gage_distance |-> GageDistanceValues]

\* the TOML tables over the given keys: each key may be absent
Tables(allowed) ==
    UNION {{m \in [D -> UNION {allowed[k] : k \in DOMAIN allowed}] :
               \A k \in D : m[k] \in allowed[k]} : D \in SUBSET DOMAIN allowed}

ParameterSets ==
    [material_properties : Tables(MaterialAllowed),
     geometric_parameters : Tables(GeometricAllowed)]

NoParameters == [material_properties |-> <<>>, geometric_parameters |-> <<>>]

\* ---- state ----
VARIABLES
    pc,                       \* "main", "prepared", "done", "error"
    err,                      \* exception that ended the run, or "none"
    file,                     \* the incident CSV file
    experimental_parameters,  \* the mapping model_1d was called with
    df_incident,              \* the caller's Incident Series
    incident,                 \* model_1d local: the array fed to np.convolve
    dt,                       \* model_1d local
    delay,                    \* model_1d local
    kernel,                   \* model_1d local
    transmitted,              \* model_1d local
    reflected,                \* model_1d local
    time_output,              \* model_1d local
    convolved,                \* np.convolve has been called
    df_analytical             \* the returned table

vars == <<pc, err, file, experimental_parameters, df_incident, incident, dt,
          delay, kernel, transmitted, reflected, time_output, convolved, df_analytical>>

modelLocals == <<incident, dt, delay, kernel, transmitted, reflected, time_output,
                 convolved, df_analytical>>

Init ==
    /\ pc = "main"
    /\ err = "none"
    /\ file \in Files
    /\ experimental_parameters = NoParameters
    /\ df_incident = <<>>
    /\ incident = <<>>
    /\ dt = NaN
    /\ delay = NaN
    /\ kernel = <<>>
    /\ transmitted = <<>>
    /\ reflected = <<>>
    /\ time_output = <<>>
    /\ convolved = FALSE
    /\ df_analytical = <<>>

\* ---- get_incident_data ----
Range(a) == {a[i] : i \in 1..Len(a)}

TimeOf(df) == [i \in 1..Len(df) |-> df[i].Time]

IncidentOf(df) == [i \in 1..Len(df) |-> df[i].Incident]

dropna(rows) == SelectSeq(rows, LAMBDA r : ~IsNaN(r.Incident))

AbsList(df) == {FAbs(df[i].Incident) : i \in 1..Len(df)}


\* variant: the peak is taken over the signed amplitudes
MaxSignalSigned(df) ==
    CHOOSE m \in Range(IncidentOf(df)) : \A a \in Range(IncidentOf(df)) : Leq(a, m)

\* max(df["Incident"].abs().tolist()) of a non-empty frame
MaxSignal(df) == CHOOSE m \in AbsList(df) : \A a \in AbsList(df) : Leq(a, m)

Normalize(df) ==
    LET max_signal == MaxSignal(df)
    IN  [i \in 1..Len(df) |->
            [Time |-> df[i].Time, Incident |-> Div(df[i].Incident, max_signal)]]

Raise(e) ==
    /\ pc' = "error"
    /\ err' = e

get_incident_data ==
    /\ pc = "main"
    /\ LET df == dropna(file.rows)
       IN  IF lower(file.suffix) # ".csv" \/ Len(df) = 0
           THEN Raise("ValueError") /\ UNCHANGED df_incident
           ELSE /\ df_incident' = Normalize(df)
                /\ pc' = "prepared"
                /\ err' = "none"
    /\ UNCHANGED <<file, experimental_parameters, modelLocals>>

\* ---- model_1d ----
\* the exception raised while reading the parameters (lines 59-70), if any
ParameterError(p) ==
    LET mp == p.material_properties
        gp == p.geometric_parameters
    IN  IF "elastic_modulus" \notin DOMAIN mp THEN "KeyError"
        ELSE IF "density" \notin DOMAIN mp THEN "KeyError"
        ELSE IF mp["density"] = Zero THEN "ZeroDivisionError"
        ELSE IF "junction_length" \notin DOMAIN gp THEN "KeyError"
        ELSE "none"

WaveSpeed(p) ==
    sqrt(Div(p.material_properties["elastic_modulus"],
             p.material_properties["density"]))

CharacteristicTime(p) ==
    Div(p.geometric_parameters["junction_length"], WaveSpeed(p))

GageDistance(p) ==
    IF "gage_distance" \in DOMAIN p.geometric_parameters
    THEN p.geometric_parameters["gage_distance"]
    ELSE Zero

diff(a) == [i \in 1..(Len(a) - 1) |-> Add(a[i + 1], Neg(a[i]))]

\* np.median: NaN for an empty array, the mean of the two middle values
\* for an even count
median(a) ==
    LET n == Len(a)
        sorted == SortSeq(a, Less)
    IN  IF n = 0 THEN NaN
        ELSE IF n % 2 = 1 THEN sorted[(n + 1) \div 2]
        ELSE Div(Add(sorted[n \div 2], sorted[n \div 2 + 1]), Int2F(2))

SampleInterval(time) == around9(median(diff(time)))


\* variant: the comparison is reversed, zeroing the negative samples
ClampNegative(a) == [i \in 1..Len(a) |-> IF Less(a[i], Zero) THEN Zero ELSE a[i]]

\* incident[np.where(incident > 0.0)] = 0
Clamp(a) == [i \in 1..Len(a) |-> IF Less(Zero, a[i]) THEN Zero ELSE a[i]]


\* variant: to_numpy without copy, the array is a view on the frame
CallerSeriesAliased(df, written) ==
    [i \in 1..Len(df) |-> [Time |-> df[i].Time, Incident |-> written[i]]]

\* df_incident after the writes to the array that to_numpy(copy=True)
\* returned: a copy shares nothing with the frame
CallerSeries(df, written) == df

\* lines 78-82; x * 1e9 turns seconds into nanoseconds, here ticks into
\* nanoseconds
ToNano(x) == Div(x, Int2F(Sub))


\* variant: the travel time is used without quantizing it to sample steps
DelayUnquantized(gage_distance, junction_length, c, step) ==
    IF gage_distance = Zero THEN Zero
    ELSE around9(Div(Add(Mul(Int2F(2), gage_distance), junction_length), c))

Delay(gage_distance, junction_length, c, step) ==
    IF gage_distance = Zero THEN Zero
    ELSE LET travel == around9(Div(Add(Mul(Int2F(2), gage_distance),
                                       junction_length), c))
         IN  Mul(floor_divide(ToNano(travel), ToNano(step)), step)

Kernel(time, t_ch) ==
    [i \in 1..Len(time) |-> Div(exp(Div(Neg(time[i]), t_ch)), t_ch)]

RECURSIVE SumSeq(_, _)
SumSeq(a, n) == IF n = 0 THEN Zero ELSE Add(SumSeq(a, n - 1), a[n])

\* np.convolve(kernel, a)[: len(a)], element n (1-based)
RECURSIVE ConvolveAt(_, _, _, _)
ConvolveAt(ker, a, n, j) ==
    IF j = 0 THEN Zero
    ELSE Add(ConvolveAt(ker, a, n, j - 1), Mul(ker[j], a[n - j + 1]))


\* variant: the convolution is not negated
TransmittedNoNegation(ker, a) ==
    [n \in 1..Len(a) |->
        Div(ConvolveAt(ker, a, n, n), SumSeq(ker, Len(ker)))]

Transmitted(ker, a) ==
    [n \in 1..Len(a) |->
        Div(Mul(Int2F(-1), ConvolveAt(ker, a, n, n)),
            SumSeq(ker, Len(ker)))]


\* variant: the minus sign binds to the incident term only
ReflectedSignSlip(a, tr) == [i \in 1..Len(a) |-> Add(Neg(a[i]), tr[i])]

Reflected(a, tr) == [i \in 1..Len(a) |-> Neg(Add(a[i], tr[i]))]

TimeOutput(time, shift) == [i \in 1..Len(time) |-> around9(Add(time[i], shift))]

\* ---- DataFrame.merge(how="outer", left_index=True, right_index=True) ----
\* order of the join keys in the result: ascending, NaN last
KeyLess(x, y) ==
    IF IsNaN(x) THEN FALSE ELSE IF IsNaN(y) THEN TRUE ELSE Less(x, y)

RECURSIVE SortKeys(_)
SortKeys(S) ==
    IF S = {} THEN <<>>
    ELSE LET m == CHOOSE x \in S : \A y \in S : ~KeyLess(y, x)
         IN  <<m>> \o SortKeys(S \ {m})

RowsForKey(k, df, keys, refl, tr) ==
    LET L == {i \in 1..Len(df) : df[i].Time = k}
        R == {j \in 1..Len(keys) : keys[j] = k}
        inc == IF L = {} THEN NaN ELSE df[CHOOSE i \in L : TRUE].Incident
        Rseq == SortSeq([j \in 1..Cardinality(R) |->
                            CHOOSE x \in R : Cardinality({y \in R : y < x}) = j - 1],
                        <)
    IN  IF R = {}
        THEN <<[Time |-> k, Incident |-> inc, Reflected |-> NaN, Transmitted |-> NaN]>>
        ELSE [n \in 1..Len(Rseq) |->
                 [Time |-> k, Incident |-> inc,
                  Reflected |-> refl[Rseq[n]], Transmitted |-> tr[Rseq[n]]]]

RECURSIVE ConcatRows(_, _, _, _, _)
ConcatRows(ks, df, keys, refl, tr) ==
    IF ks = <<>> THEN <<>>
    ELSE RowsForKey(Head(ks), df, keys, refl, tr)
            \o ConcatRows(Tail(ks), df, keys, refl, tr)

Merge(df, keys, refl, tr) ==
    ConcatRows(SortKeys(Range(TimeOf(df)) \cup Range(keys)), df, keys, refl, tr)

model_1d ==
    /\ pc = "prepared"
    /\ \E p \in ParameterSets :
        /\ experimental_parameters' = p
        /\ IF ParameterError(p) # "none"
           THEN /\ Raise(ParameterError(p))
                /\ UNCHANGED <<df_incident, modelLocals>>
           ELSE LET c == WaveSpeed(p)
                    junction_length == p.geometric_parameters["junction_length"]
                    t_ch == CharacteristicTime(p)
                    time == TimeOf(df_incident)
                IN  /\ dt' = SampleInterval(time)
                    /\ incident' = Clamp(IncidentOf(df_incident))
                    /\ df_incident' = CallerSeries(df_incident, incident')
                    /\ delay' = Delay(GageDistance(p), junction_length, c, dt')
                    /\ kernel' = Kernel(time, t_ch)
                    /\ convolved' = TRUE
                    /\ transmitted' = Transmitted(kernel', incident')
                    /\ reflected' = Reflected(incident', transmitted')
                    /\ time_output' = TimeOutput(time, delay')
                    /\ df_analytical' =
                           Merge(df_incident', time_output', reflected', transmitted')
                    /\ pc' = "done"
                    /\ err' = "none"
    /\ UNCHANGED file

Next == get_incident_data \/ model_1d

Spec == Init /\ [][Next]_vars

\* ---- vocabulary of the properties ----
Present(tbl, k) == k \in DOMAIN tbl

Positive(tbl, k) == Present(tbl, k) /\ Less(Zero, tbl[k])

\* elastic_modulus, density and junction_length are present and positive
RequiredValid(p) ==
    /\ Positive(p.material_properties, "elastic_modulus")
    /\ Positive(p.material_properties, "density")
    /\ Positive(p.geometric_parameters, "junction_length")

ValidParameters == RequiredValid(experimental_parameters)

ModelCalled == pc = "done" \/ (pc = "error" /\ err # "ValueError")

Returned == pc = "done"

ZeroGage == GageDistance(experimental_parameters) = Zero

N == Len(df_incident)

\* every amplitude of the series is a number
NumericSeries == \A i \in 1..N : IsFin(df_incident[i].Incident)

Survivors == dropna(file.rows)

Readable == lower(file.suffix) = ".csv"

\* C1 (as stated): with valid parameters, every sample i has
\* reflected[i] + transmitted[i] + Incident[i] = 0, Incident being the value
\* the returned table carries, also where that value is positive.
C1_ConservationOnReturnedIncident ==
    (Returned /\ ValidParameters /\ NumericSeries) =>
        \A i \in 1..N :
            Add(Add(reflected[i], transmitted[i]), df_incident[i].Incident) = Zero

\* C1 (amended): with valid parameters and numeric amplitudes, every sample i
\* has reflected[i] + transmitted[i] + incident[i] = 0 for the sign-clamped
\* incident value; that is the returned Incident where it is <= 0, and 0
\* (so reflected + transmitted = 0) where the returned Incident is positive.
C1_ConservationOnClampedIncident ==
    (Returned /\ ValidParameters /\ NumericSeries) =>
        \A i \in 1..N :
            /\ IsFin(reflected[i]) /\ IsFin(transmitted[i])
            /\ Add(Add(reflected[i], transmitted[i]), incident[i]) = Zero
            /\ Leq(df_incident[i].Incident, Zero) =>
                   Add(Add(reflected[i], transmitted[i]), df_incident[i].Incident) = Zero
            /\ Less(Zero, df_incident[i].Incident) =>
                   Add(reflected[i], transmitted[i]) = Zero

C1_Witness ==
    /\ Returned /\ ValidParameters /\ NumericSeries
    /\ \E i \in 1..N : Less(Zero, df_incident[i].Incident) /\ transmitted[i] # Zero
    /\ \E i \in 1..N : Less(df_incident[i].Incident, Zero)

\* C2 (as stated): model_1d fails, before any convolution, whenever
\* elastic_modulus, density or junction_length is absent or non-positive;
\* an absent gage_distance is no error and counts as 0.
C2_MissingParameter ==
    ModelCalled =>
        /\ ~ValidParameters => (pc = "error" /\ ~convolved)
        /\ (ValidParameters
              /\ ~Present(experimental_parameters.geometric_parameters, "gage_distance"))
             => (Returned /\ delay = Zero)

\* C3 (as stated): when every surviving amplitude is zero, get_incident_data
\* fails and returns no series.
C3_DegenerateSignal ==
    (pc # "main" /\ Readable /\ Survivors # <<>>
        /\ \A i \in 1..Len(Survivors) : Survivors[i].Incident = Zero)
      => (pc = "error" /\ err = "ValueError" /\ df_incident = <<>>)

\* the travel time (2*gage_distance + junction_length)/c, not yet rounded
TravelTime ==
    Div(Add(Mul(Int2F(2), GageDistance(experimental_parameters)),
            experimental_parameters.geometric_parameters["junction_length"]),
        WaveSpeed(experimental_parameters))

\* T is a whole number of nanoseconds nearest to the travel time
IsRoundedTravelTime(T) ==
    /\ IsFin(T) /\ T[2] = 1 /\ T[1] % Sub = 0
    /\ Leq(FAbs(Add(T, Neg(TravelTime))), Norm(Sub, 2))

MaxSteps == 16

\* C4: for positive gage_distance and sample interval dt > 0, delay = k*dt
\* for a non-negative integer k with delay <= T < delay + dt, T being the
\* travel time rounded to whole nanoseconds.
C4_DelayQuantization ==
    (Returned /\ ValidParameters /\ ~ZeroGage /\ Less(Zero, dt)) =>
        \E k \in 0..MaxSteps : \E n \in 0..MaxSteps :
            LET T == Int2F(n * Sub)
            IN  /\ IsRoundedTravelTime(T)
                /\ delay = Mul(Int2F(k), dt)
                /\ Leq(delay, T)
                /\ Less(T, Add(delay, dt))

\* the floor is strict: the delay is positive and below the travel time
C4_Witness ==
    /\ Returned /\ ValidParameters /\ ~ZeroGage /\ Less(Zero, dt)
    /\ Less(Zero, delay)
    /\ \E n \in 0..MaxSteps :
           IsRoundedTravelTime(Int2F(n * Sub)) /\ Less(delay, Int2F(n * Sub))

NoAbsentValue(row) ==
    ~IsNaN(row.Incident) /\ ~IsNaN(row.Reflected) /\ ~IsNaN(row.Transmitted)

\* C5 (as stated): with gage_distance 0 or absent the output time axis is
\* the incident time axis for every incident series, so the table has one
\* row per incident sample and no absent value.
C5_ZeroDelayIdentity ==
    (Returned /\ ValidParameters /\ NumericSeries /\ ZeroGage) =>
        /\ time_output = TimeOf(df_incident)
        /\ Len(df_analytical) = N
        /\ \A r \in 1..Len(df_analytical) : NoAbsentValue(df_analytical[r])

\* C6: a sample whose incident value is > 0 enters the convolution and the
\* reflected-wave formula as exactly 0; a sample whose value is <= 0 enters
\* unchanged.
C6_SignClamp ==
    Returned =>
        /\ Len(incident) = N
        /\ \A i \in 1..N :
            /\ Less(Zero, df_incident[i].Incident) => incident[i] = Zero
            /\ Leq(df_incident[i].Incident, Zero) =>
                   incident[i] = df_incident[i].Incident

C6_Witness ==
    /\ Returned
    /\ \E i \in 1..N : Less(Zero, df_incident[i].Incident) /\ incident[i] = Zero
    /\ \E i \in 1..N : Less(df_incident[i].Incident, Zero)

NonDegenerate ==
    \E i \in 1..Len(Survivors) : Survivors[i].Incident # Zero

\* C7: for a non-degenerate input the prepared series has every
\* |amplitude| <= 1, some |amplitude| = 1, and every amplitude keeps the
\* sign of its raw value.
C7_Normalization ==
    (pc = "prepared" /\ NonDegenerate) =>
        /\ N = Len(Survivors)
        /\ \A i \in 1..N : Leq(FAbs(df_incident[i].Incident), One)
        /\ \E i \in 1..N : FAbs(df_incident[i].Incident) = One
        /\ \A i \in 1..N :
               Sgn(df_incident[i].Incident[1]) = Sgn(Survivors[i].Incident[1])

\* a sample is scaled to a value strictly inside (0, 1)
C7_Witness ==
    /\ pc = "prepared" /\ NonDegenerate
    /\ \E i \in 1..N : /\ Less(Zero, FAbs(df_incident[i].Incident))
                       /\ Less(FAbs(df_incident[i].Incident), One)
    /\ \E i \in 1..N : Less(df_incident[i].Incident, Zero)

ConstantMinusOne == N >= 1 /\ \A i \in 1..N : df_incident[i].Incident = Int2F(-1)

\* C8 (as stated): for a constant incident of -1 and gage_distance 0 the
\* transmitted samples are negative and reach -1 at the last sample, and
\* the reflected samples reach 0.
C8_TransmittedApproachesMinusOne ==
    (Returned /\ ValidParameters /\ ZeroGage /\ ConstantMinusOne) =>
        /\ \A i \in 1..N : Less(transmitted[i], Zero)
        /\ transmitted[N] = Int2F(-1)
        /\ reflected[N] = Zero

\* C8 (amended): for a constant incident of -1 and gage_distance 0 the
\* transmitted samples are positive, never decrease and reach +1 at the
\* last sample; the reflected samples are 1 - transmitted, never increase
\* and reach 0 at the last sample.
C8_TransmittedApproachesPlusOne ==
    (Returned /\ ValidParameters /\ ZeroGage /\ ConstantMinusOne) =>
        /\ \A i \in 1..N : Less(Zero, transmitted[i]) /\ Leq(transmitted[i], One)
        /\ \A i \in 1..(N - 1) : Leq(transmitted[i], transmitted[i + 1])
        /\ transmitted[N] = One
        /\ \A i \in 1..N : reflected[i] = Add(One, Neg(transmitted[i]))
        /\ reflected[N] = Zero

C8_Witness ==
    /\ Returned /\ ValidParameters /\ ZeroGage /\ ConstantMinusOne
    /\ N = MaxLen
    /\ Less(transmitted[1], transmitted[N])
    /\ Less(Zero, reflected[1])

\* the incident series is uniformly sampled with step d > 0
Uniform(d) ==
    /\ N >= 2
    /\ Less(Zero, d)
    /\ \A i \in 1..(N - 1) : Add(df_incident[i + 1].Time, Neg(df_incident[i].Time)) = d

Min(a, b) == IF a < b THEN a ELSE b

RowsAt(t) == {r \in 1..Len(df_analytical) : df_analytical[r].Time = t}

\* C9 (as stated): for a uniformly sampled series of N samples and a delay
\* of k sample steps the table has one row per time of the union of the
\* incident times and the shifted times, N + min(k, N) rows in increasing
\* time order; Reflected/Transmitted are absent on rows that are only
\* incident times, Incident is absent on rows that are only shifted times,
\* and the row at t_i + delay carries the values computed for sample i.
C9_TimeAxisMerge ==
    \A k \in 0..MaxSteps :
        LET d == Add(df_incident[2].Time, Neg(df_incident[1].Time))
            shifted(i) == Add(df_incident[i].Time, Mul(Int2F(k), d))
            times == Range(TimeOf(df_incident))
            shiftedTimes == {shifted(i) : i \in 1..N}
        IN  (Returned /\ ValidParameters /\ NumericSeries /\ Uniform(d)
                /\ delay = Mul(Int2F(k), d)) =>
              /\ Len(df_analytical) = N + Min(k, N)
              /\ \A r \in 1..(Len(df_analytical) - 1) :
                     Less(df_analytical[r].Time, df_analytical[r + 1].Time)
              /\ \A r \in 1..Len(df_analytical) :
                     LET row == df_analytical[r]
                     IN  /\ row.Time \in times \cup shiftedTimes
                         /\ row.Time \notin shiftedTimes =>
                                IsNaN(row.Reflected) /\ IsNaN(row.Transmitted)
                         /\ row.Time \notin times => IsNaN(row.Incident)
              /\ \A i \in 1..N : \E r \in RowsAt(shifted(i)) :
                     /\ df_analytical[r].Reflected = reflected[i]
                     /\ df_analytical[r].Transmitted = transmitted[i]

\* the Incident column carries the caller's amplitudes at every incident time
IncidentCarried ==
    \A i \in 1..N : \E r \in RowsAt(df_incident[i].Time) :
        df_analytical[r].Incident = df_incident[i].Incident

\* C10: a call of model_1d, returning or failing, leaves the caller's
\* series as it was, and the Incident column of a returned table carries
\* the un-clamped amplitudes of that series at every incident time.
C10_CallerSeriesUnchanged ==
    [][pc = "prepared" =>
          /\ df_incident' = df_incident
          /\ pc' = "done" => IncidentCarried']_vars

C10_Witness ==
    /\ Returned
    /\ \E i \in 1..N : /\ Less(Zero, df_incident[i].Incident)
                       /\ incident[i] = Zero
                       /\ \E r \in RowsAt(df_incident[i].Time) :
                              Less(Zero, df_analytical[r].Incident)

====
